---- MODULE Spec2Model ----
(***************************************************************************)
(* Model of the Jinglitai JLT4013A panel driver                            *)
(* (src/panel-jinglitai-jlt4013a.c, the revision at lines 263-776): the    *)
(* ST7701S 9-bit SPI word encoding, the bring-up sequence of               *)
(* jlt4013a_prepare and the drm_panel_funcs callbacks, called one at a     *)
(* time by a display pipeline that follows the lifecycle transition table. *)
(*                                                                         *)
(* jlt4013a_prepare runs statement by statement (pc is the statement it is *)
(* at, 0 when no call is in progress): the result of each regulator call   *)
(* and of each bus transfer is an input, and a failed one returns from the *)
(* function.  The other callbacks are single actions.                      *)
(***************************************************************************)
EXTENDS Integers, Sequences, FiniteSets, TLC

VARIABLES
    lifecycle,             \* the pipeline's view: Unprepared/Prepared/Enabled/Disabled
    use_count,             \* regulator "power": successful enables minus disables
    reset,                 \* logical value of the reset GPIO (1 = asserted)
    connector,             \* drm_connector: probed_modes and display_info
    default_display_mode,  \* the static jlt4013a_default_display_mode object
    pc,                    \* statement of jlt4013a_prepare to run next; 0: no call running
    op,                    \* the callback running or, if none, last returned
    ret,                   \* its variable ret; once it returned, the value returned
    trace,                 \* power, reset, delay and bus events of that call, in order
    inputs,                \* what the environment answered during that call
    before,                \* lifecycle, use_count, reset, connector when it was called
    faults,                \* failures the environment has injected so far
    device,                \* the spi device: bound or not, what ctx holds, panel added
    wr                     \* a single st7701s_write_command/_data call and its message

panel == <<lifecycle, use_count, reset, connector, default_display_mode,
           pc, op, ret, trace, inputs, before, faults, device>>

vars == <<panel, wr>>

(* Bounds of the model. *)
MaxFaults == 2
MaxModes == 2

(* Commands and register addresses, lines 284-312. *)
ST7701S_SLPOUT == 17
ST7701S_DISPON == 41
ST7701S_COLMOD == 58
ST7701S_CN2BKxSEL == 255
ST7701S_LNESET == 192
ST7701S_PORCTRL == 193
ST7701S_INVSET == 194
ST7701S_PVGAMCTRL == 176
ST7701S_NVGAMCTRL == 177
ST7701S_VRHS == 176
ST7701S_VCOM == 177
ST7701S_VGHSS == 178
ST7701S_TESTCMD == 179
ST7701S_VGLS == 181
ST7701S_PWCTRL1 == 183
ST7701S_PWCTRL2 == 184
ST7701S_PWCTRL3 == 185
ST7701S_SPD1 == 193
ST7701S_SPD2 == 194
ST7701S_MIPISET1 == 208

(* enum st7701s_prefix, lines 336-339. *)
ST7701S_COMMAND == 0
ST7701S_DATA == 1

(* The largest u8, the type of the byte st7701s_spi_write takes (line 342). *)
U8Max == 255

(* Kernel values the driver uses by name. *)
EAGAIN == 11
DRM_MODE_TYPE_PREFERRED == 8
DRM_MODE_TYPE_DRIVER == 64
DRM_BUS_FLAG_PIXDATA_DRIVE_POSEDGE == 4
MEDIA_BUS_FMT_RGB888_1X24 == 4106

(* Errors the environment may answer with: -EIO (-5) and -ETIMEDOUT      *)
(* (-110), from spi_sync and from the regulator calls.                     *)
BusErrors == {-5, -110}
PowerErrors == {-5, -110}

(* Errors a lookup of jlt4013a_probe may answer with: -ENODEV (-19) and    *)
(* -EPROBE_DEFER (-517).                                                   *)
ProbeErrors == {-19, -517}

(***************************************************************************)
(* C integer operators on naturals.                                        *)
(***************************************************************************)
RECURSIVE BitAnd(_, _)
BitAnd(a, b) ==
    IF a = 0 \/ b = 0 THEN 0
    ELSE (a % 2) * (b % 2) + 2 * BitAnd(a \div 2, b \div 2)

RECURSIVE BitOr(_, _)
BitOr(a, b) ==
    IF a = 0 THEN b
    ELSE IF b = 0 THEN a
    ELSE (IF a % 2 = 1 \/ b % 2 = 1 THEN 1 ELSE 0) + 2 * BitOr(a \div 2, b \div 2)

ShiftLeft(a, n) == a * 2^n

(***************************************************************************)
(* st7701s_spi_write, lines 341-356: the spi_message handed to spi_sync,   *)
(* the list of its transfers.  txbuf is a u16.                             *)
(***************************************************************************)
st7701s_spi_write_Shift7(prefix, data) ==
    LET txbuf == BitOr(ShiftLeft(BitAnd(prefix, 1), 7), data) % 65536
        xfer == [tx_buf |-> txbuf, bits_per_word |-> 9, len |-> 2]
    IN <<xfer>>

st7701s_spi_write(prefix, data) ==
    LET txbuf == BitOr(ShiftLeft(BitAnd(prefix, 1), 8), data) % 65536
        xfer == [tx_buf |-> txbuf, bits_per_word |-> 9, len |-> 2]
    IN <<xfer>>

st7701s_write_command(cmd) == st7701s_spi_write(ST7701S_COMMAND, cmd)

st7701s_write_data(cmd) == st7701s_spi_write(ST7701S_DATA, cmd)

(* The SPI core sends len / (bytes per word) words of a transfer; a word of *)
(* 9 to 16 bits takes two bytes of the buffer.                              *)
BytesPerWord(bits) == IF bits <= 8 THEN 1 ELSE IF bits <= 16 THEN 2 ELSE 4

WordsOf(xfer) == xfer.len \div BytesPerWord(xfer.bits_per_word)

(* ST7701S_TRY, lines 314-321: whether the macro returns from the function. *)
ST7701S_TRY_NoReturn(val) == FALSE

ST7701S_TRY(val) == val # 0

(***************************************************************************)
(* The statements of jlt4013a_prepare, in source order.                    *)
(***************************************************************************)
RegulatorEnable == [op |-> "regulator_enable", arg |-> 0]
GpiodSetValue(v) == [op |-> "gpiod_set_value", arg |-> v]
Msleep(ms) == [op |-> "msleep", arg |-> ms]
WriteCommand(cmd) == [op |-> "write_command", arg |-> cmd]
WriteData(d) == [op |-> "write_data", arg |-> d]

PowerOnReset_NoSettle ==
   <<RegulatorEnable, Msleep(120), GpiodSetValue(1), Msleep(120), GpiodSetValue(0)>>

PowerOnReset_NoDeassert ==
   <<RegulatorEnable, Msleep(120), GpiodSetValue(1), Msleep(120), GpiodSetValue(1),
     Msleep(120)>>

(* Lines 379-391: enable the power supply, then the reset routine. *)
PowerOnReset ==
   <<
      RegulatorEnable,                  \* line 379
      Msleep(120),                      \* line 384
      GpiodSetValue(1),                 \* line 388
      Msleep(120),                      \* line 389
      GpiodSetValue(0),                 \* line 390
      Msleep(120)                       \* line 391
   >>

SleepOut_NoDelay == <<WriteCommand(ST7701S_SLPOUT)>>

(* Lines 395-396: sleep out, then the settle delay. *)
SleepOut ==
   <<
      WriteCommand(ST7701S_SLPOUT),     \* line 395
      Msleep(120)                       \* line 396
   >>

(* Lines 398-459: BK0. *)
Bank0 ==
   <<
      WriteCommand(ST7701S_CN2BKxSEL),  \* line 400
      WriteData(119),                   \* line 401, 0x77
      WriteData(1),                     \* line 402, 0x01
      WriteData(0),                     \* line 403, 0x00
      WriteData(0),                     \* line 404, 0x00
      WriteData(16),                    \* line 405, 0x10
      WriteCommand(ST7701S_LNESET),     \* line 408
      WriteData(233),                   \* line 409, 0xE9
      WriteData(3),                     \* line 410, 0x03
      WriteCommand(ST7701S_PORCTRL),    \* line 412
      WriteData(17),                    \* line 413, 0x11
      WriteData(2),                     \* line 414, 0x02
      WriteCommand(ST7701S_INVSET),     \* line 416
      WriteData(49),                    \* line 417, 0x31
      WriteData(3),                     \* line 418, 0x03
      WriteCommand(204),                \* line 422, 0xCC
      WriteData(16),                    \* line 423, 0x10
      WriteCommand(ST7701S_PVGAMCTRL),  \* line 425
      WriteData(64),                    \* line 426, 0x40
      WriteData(1),                     \* line 427, 0x01
      WriteData(70),                    \* line 428, 0x46
      WriteData(13),                    \* line 429, 0x0D
      WriteData(19),                    \* line 430, 0x13
      WriteData(9),                     \* line 431, 0x09
      WriteData(5),                     \* line 432, 0x05
      WriteData(9),                     \* line 433, 0x09
      WriteData(9),                     \* line 434, 0x09
      WriteData(27),                    \* line 435, 0x1B
      WriteData(7),                     \* line 436, 0x07
      WriteData(21),                    \* line 437, 0x15
      WriteData(18),                    \* line 438, 0x12
      WriteData(76),                    \* line 439, 0x4C
      WriteData(16),                    \* line 440, 0x10
      WriteData(200),                   \* line 441, 0xC8
      WriteCommand(ST7701S_NVGAMCTRL),  \* line 443
      WriteData(64),                    \* line 444, 0x40
      WriteData(2),                     \* line 445, 0x02
      WriteData(134),                   \* line 446, 0x86
      WriteData(13),                    \* line 447, 0x0D
      WriteData(19),                    \* line 448, 0x13
      WriteData(9),                     \* line 449, 0x09
      WriteData(5),                     \* line 450, 0x05
      WriteData(9),                     \* line 451, 0x09
      WriteData(9),                     \* line 452, 0x09
      WriteData(31),                    \* line 453, 0x1F
      WriteData(7),                     \* line 454, 0x07
      WriteData(21),                    \* line 455, 0x15
      WriteData(18),                    \* line 456, 0x12
      WriteData(21),                    \* line 457, 0x15
      WriteData(25),                    \* line 458, 0x19
      WriteData(8)                      \* line 459, 0x08
   >>

(* Lines 461-625: BK1. *)
Bank1 ==
   <<
      WriteCommand(ST7701S_CN2BKxSEL),  \* line 463
      WriteData(119),                   \* line 464, 0x77
      WriteData(1),                     \* line 465, 0x01
      WriteData(0),                     \* line 466, 0x00
      WriteData(0),                     \* line 467, 0x00
      WriteData(17),                    \* line 468, 0x11
      WriteCommand(ST7701S_VRHS),       \* line 470
      WriteData(80),                    \* line 471, 0x50
      WriteCommand(ST7701S_VCOM),       \* line 473
      WriteData(104),                   \* line 474, 0x68
      WriteCommand(ST7701S_VGHSS),      \* line 476
      WriteData(7),                     \* line 477, 0x07
      WriteCommand(ST7701S_TESTCMD),    \* line 479
      WriteData(128),                   \* line 480, 0x80
      WriteCommand(ST7701S_VGLS),       \* line 482
      WriteData(71),                    \* line 483, 0x47
      WriteCommand(ST7701S_PWCTRL1),    \* line 485
      WriteData(133),                   \* line 486, 0x85
      WriteCommand(ST7701S_PWCTRL2),    \* line 488
      WriteData(33),                    \* line 489, 0x21
      WriteCommand(ST7701S_PWCTRL3),    \* line 491
      WriteData(16),                    \* line 492, 0x10
      WriteCommand(ST7701S_SPD1),       \* line 494
      WriteData(33),                    \* line 495, 0x21
      WriteData(54),                    \* line 496, 0x36
      WriteCommand(ST7701S_SPD2),       \* line 498
      WriteData(120),                   \* line 499, 0x78
      WriteCommand(ST7701S_MIPISET1),   \* line 501
      WriteData(73),                    \* line 502, 0b01001001
      WriteCommand(224),                \* line 507, 0xE0
      WriteData(0),                     \* line 508, 0x00
      WriteData(0),                     \* line 509, 0x00
      WriteData(2),                     \* line 510, 0x02
      WriteCommand(225),                \* line 512, 0xE1
      WriteData(8),                     \* line 513, 0x08
      WriteData(0),                     \* line 514, 0x00
      WriteData(10),                    \* line 515, 0x0A
      WriteData(0),                     \* line 516, 0x00
      WriteData(7),                     \* line 517, 0x07
      WriteData(0),                     \* line 518, 0x00
      WriteData(9),                     \* line 519, 0x09
      WriteData(0),                     \* line 520, 0x00
      WriteData(0),                     \* line 521, 0x00
      WriteData(51),                    \* line 522, 0x33
      WriteData(51),                    \* line 523, 0x33
      WriteCommand(226),                \* line 525, 0xE2
      WriteData(0),                     \* line 526, 0x00
      WriteData(0),                     \* line 527, 0x00
      WriteData(0),                     \* line 528, 0x00
      WriteData(0),                     \* line 529, 0x00
      WriteData(0),                     \* line 530, 0x00
      WriteData(0),                     \* line 531, 0x00
      WriteData(0),                     \* line 532, 0x00
      WriteData(0),                     \* line 533, 0x00
      WriteData(0),                     \* line 534, 0x00
      WriteData(0),                     \* line 535, 0x00
      WriteData(0),                     \* line 536, 0x00
      WriteData(0),                     \* line 537, 0x00
      WriteData(0),                     \* line 538, 0x00
      WriteCommand(227),                \* line 540, 0xE3
      WriteData(0),                     \* line 541, 0x00
      WriteData(0),                     \* line 542, 0x00
      WriteData(51),                    \* line 543, 0x33
      WriteData(51),                    \* line 544, 0x33
      WriteCommand(228),                \* line 546, 0xE4
      WriteData(68),                    \* line 547, 0x44
      WriteData(68),                    \* line 548, 0x44
      WriteCommand(229),                \* line 550, 0xE5
      WriteData(14),                    \* line 551, 0x0E
      WriteData(45),                    \* line 552, 0x2D
      WriteData(160),                   \* line 553, 0xA0
      WriteData(160),                   \* line 554, 0xA0
      WriteData(16),                    \* line 555, 0x10
      WriteData(45),                    \* line 556, 0x2D
      WriteData(160),                   \* line 557, 0xA0
      WriteData(160),                   \* line 558, 0xA0
      WriteData(10),                    \* line 559, 0x0A
      WriteData(45),                    \* line 560, 0x2D
      WriteData(160),                   \* line 561, 0xA0
      WriteData(160),                   \* line 562, 0xA0
      WriteData(12),                    \* line 563, 0x0C
      WriteData(45),                    \* line 564, 0x2D
      WriteData(160),                   \* line 565, 0xA0
      WriteData(160),                   \* line 566, 0xA0
      WriteCommand(230),                \* line 568, 0xE6
      WriteData(0),                     \* line 569, 0x00
      WriteData(0),                     \* line 570, 0x00
      WriteData(51),                    \* line 571, 0x33
      WriteData(51),                    \* line 572, 0x33
      WriteCommand(231),                \* line 574, 0xE7
      WriteData(68),                    \* line 575, 0x44
      WriteData(68),                    \* line 576, 0x44
      WriteCommand(232),                \* line 578, 0xE8
      WriteData(13),                    \* line 579, 0x0D
      WriteData(45),                    \* line 580, 0x2D
      WriteData(160),                   \* line 581, 0xA0
      WriteData(160),                   \* line 582, 0xA0
      WriteData(15),                    \* line 583, 0x0F
      WriteData(45),                    \* line 584, 0x2D
      WriteData(160),                   \* line 585, 0xA0
      WriteData(160),                   \* line 586, 0xA0
      WriteData(9),                     \* line 587, 0x09
      WriteData(45),                    \* line 588, 0x2D
      WriteData(160),                   \* line 589, 0xA0
      WriteData(160),                   \* line 590, 0xA0
      WriteData(11),                    \* line 591, 0x0B
      WriteData(45),                    \* line 592, 0x2D
      WriteData(160),                   \* line 593, 0xA0
      WriteData(160),                   \* line 594, 0xA0
      WriteCommand(235),                \* line 596, 0xEB
      WriteData(2),                     \* line 597, 0x02
      WriteData(1),                     \* line 598, 0x01
      WriteData(228),                   \* line 599, 0xE4
      WriteData(228),                   \* line 600, 0xE4
      WriteData(68),                    \* line 601, 0x44
      WriteData(0),                     \* line 602, 0x00
      WriteData(64),                    \* line 603, 0x40
      WriteCommand(236),                \* line 605, 0xEC
      WriteData(2),                     \* line 606, 0x02
      WriteData(1),                     \* line 607, 0x01
      WriteCommand(237),                \* line 609, 0xED
      WriteData(171),                   \* line 610, 0xAB
      WriteData(137),                   \* line 611, 0x89
      WriteData(118),                   \* line 612, 0x76
      WriteData(84),                    \* line 613, 0x54
      WriteData(1),                     \* line 614, 0x01
      WriteData(255),                   \* line 615, 0xFF
      WriteData(255),                   \* line 616, 0xFF
      WriteData(255),                   \* line 617, 0xFF
      WriteData(255),                   \* line 618, 0xFF
      WriteData(255),                   \* line 619, 0xFF
      WriteData(255),                   \* line 620, 0xFF
      WriteData(16),                    \* line 621, 0x10
      WriteData(69),                    \* line 622, 0x45
      WriteData(103),                   \* line 623, 0x67
      WriteData(152),                   \* line 624, 0x98
      WriteData(186)                    \* line 625, 0xBA
   >>

(* Lines 627-634: BK disable. *)
BankDisable ==
   <<
      WriteCommand(ST7701S_CN2BKxSEL),  \* line 629
      WriteData(119),                   \* line 630, 0x77
      WriteData(1),                     \* line 631, 0x01
      WriteData(0),                     \* line 632, 0x00
      WriteData(0),                     \* line 633, 0x00
      WriteData(0)                      \* line 634, 0x00
   >>

DisplayOn_Colmod18 ==
   <<WriteCommand(ST7701S_COLMOD), WriteData(96), WriteCommand(ST7701S_DISPON),
     Msleep(120)>>

(* Lines 636-641: COLMOD, DISPON and the final delay. *)
DisplayOn ==
   <<
      WriteCommand(ST7701S_COLMOD),     \* line 636
      WriteData(112),                   \* line 637, 0x70
      WriteCommand(ST7701S_DISPON),     \* line 639
      Msleep(120)                       \* line 641
   >>
PrepareBody_Bank1First ==
    PowerOnReset \o SleepOut \o Bank1 \o Bank0 \o BankDisable \o DisplayOn

PrepareBody_DisplayOnFirst ==
    PowerOnReset \o DisplayOn \o SleepOut \o Bank0 \o Bank1 \o BankDisable

PrepareBody == PowerOnReset \o SleepOut \o Bank0 \o Bank1 \o BankDisable \o DisplayOn

IsWrite(s) == s.op \in {"write_command", "write_data"}

NumTransfers == Cardinality({i \in DOMAIN PrepareBody : IsWrite(PrepareBody[i])})

(***************************************************************************)
(* Events of a call, as the hardware sees them.                            *)
(***************************************************************************)
Event(o, arg, r) == [op |-> o, arg |-> arg, ret |-> r]

(* The event a statement of jlt4013a_prepare makes, r being its result. *)
StatementEvent_AllCommands(s, r) ==
    IF IsWrite(s) THEN Event("spi_sync", st7701s_write_command(s.arg), r)
    ELSE Event(s.op, s.arg, r)

StatementEvent(s, r) ==
    IF s.op = "write_command" THEN Event("spi_sync", st7701s_write_command(s.arg), r)
    ELSE IF s.op = "write_data" THEN Event("spi_sync", st7701s_write_data(s.arg), r)
    ELSE Event(s.op, s.arg, r)

(* Whether jlt4013a_prepare returns after statement s gave r: "if (ret)     *)
(* return ret" at lines 380-383, ST7701S_TRY around every write.           *)
EarlyReturn_IgnorePower(s, r) == IsWrite(s) /\ ST7701S_TRY(r)

EarlyReturn(s, r) ==
    IF s.op = "regulator_enable" THEN r # 0
    ELSE IF IsWrite(s) THEN ST7701S_TRY(r)
    ELSE FALSE

Transfers(ev) == SelectSeq(ev, LAMBDA e : e.op = "spi_sync")

(***************************************************************************)
(* jlt4013a_unprepare, lines 646-652; r is what regulator_disable gives.   *)
(***************************************************************************)
jlt4013a_unprepare_NoDisable(uc, r) ==
    [ret |-> 0, use_count |-> uc, events |-> <<>>]

jlt4013a_unprepare_SwallowError(uc, r) ==
    [ret |-> 0,
     use_count |-> IF r = 0 THEN uc - 1 ELSE uc,
     events |-> <<Event("regulator_disable", 0, r)>>]

jlt4013a_unprepare(uc, r) ==
    [ret |-> r,
     use_count |-> IF r = 0 THEN uc - 1 ELSE uc,
     events |-> <<Event("regulator_disable", 0, r)>>]

(***************************************************************************)
(* jlt4013a_default_display_mode, lines 654-666.                           *)
(***************************************************************************)
jlt4013a_default_display_mode ==
    [clock |-> 14616,
     hdisplay |-> 480,
     hsync_start |-> 480 + 32,
     hsync_end |-> 480 + 32 + 11,
     htotal |-> 480 + 32 + 11 + 2,
     vdisplay |-> 800,
     vsync_start |-> 800 + 54,
     vsync_end |-> 800 + 54 + 41,
     vtotal |-> 800 + 54 + 41 + 33,
     width_mm |-> 52,
     height_mm |-> 86,
     type |-> 0,
     name |-> ""]

(* drm_mode_set_name: "<hdisplay>x<vdisplay>" for a progressive mode. *)
drm_mode_set_name(mode) ==
    [mode EXCEPT !.name = ToString(mode.hdisplay) \o "x" \o ToString(mode.vdisplay)]

(* Line 683: the type of the copy. *)
mode_type_PreferredOnly == DRM_MODE_TYPE_PREFERRED

mode_type == BitOr(DRM_MODE_TYPE_PREFERRED, DRM_MODE_TYPE_DRIVER)

(***************************************************************************)
(* jlt4013a_get_modes, lines 668-696.  in.dupOk: drm_mode_duplicate gave a *)
(* copy; in.fmtRet: what drm_display_info_set_bus_formats returned, 0 or   *)
(* -ENOMEM (the driver drops it).                                          *)
(***************************************************************************)
jlt4013a_get_modes_InPlace(conn, dflt, in) ==
    IF ~in.dupOk
    THEN [ret |-> -EAGAIN, connector |-> conn, default |-> dflt]
    ELSE LET mode == [drm_mode_set_name(dflt) EXCEPT !.type = mode_type]
             info == [conn.display_info EXCEPT
                        !.width_mm = mode.width_mm,
                        !.height_mm = mode.height_mm,
                        !.bpc = 8,
                        !.bus_flags = DRM_BUS_FLAG_PIXDATA_DRIVE_POSEDGE,
                        !.bus_formats = IF in.fmtRet = 0
                                        THEN <<MEDIA_BUS_FMT_RGB888_1X24>>
                                        ELSE @]
         IN [ret |-> 1,
             connector |-> [probed_modes |-> Append(conn.probed_modes, mode),
                            display_info |-> info],
             default |-> mode]

jlt4013a_get_modes_InfoFirst(conn, dflt, in) ==
    LET mode == [drm_mode_set_name(dflt) EXCEPT !.type = mode_type]
        info == [conn.display_info EXCEPT
                   !.width_mm = dflt.width_mm,
                   !.height_mm = dflt.height_mm,
                   !.bpc = 8,
                   !.bus_flags = DRM_BUS_FLAG_PIXDATA_DRIVE_POSEDGE,
                   !.bus_formats = IF in.fmtRet = 0
                                   THEN <<MEDIA_BUS_FMT_RGB888_1X24>>
                                   ELSE @]
    IN IF ~in.dupOk
       THEN [ret |-> -EAGAIN,
             connector |-> [conn EXCEPT !.display_info = info],
             default |-> dflt]
       ELSE [ret |-> 1,
             connector |-> [probed_modes |-> Append(conn.probed_modes, mode),
                            display_info |-> info],
             default |-> dflt]

jlt4013a_get_modes_CountsProbed(conn, dflt, in) ==
    IF ~in.dupOk
    THEN [ret |-> -EAGAIN, connector |-> conn, default |-> dflt]
    ELSE LET mode == [drm_mode_set_name(dflt) EXCEPT !.type = mode_type]
             info == [conn.display_info EXCEPT
                        !.width_mm = mode.width_mm,
                        !.height_mm = mode.height_mm,
                        !.bpc = 8,
                        !.bus_flags = DRM_BUS_FLAG_PIXDATA_DRIVE_POSEDGE,
                        !.bus_formats = IF in.fmtRet = 0
                                        THEN <<MEDIA_BUS_FMT_RGB888_1X24>>
                                        ELSE @]
         IN [ret |-> Len(conn.probed_modes) + 1,
             connector |-> [probed_modes |-> Append(conn.probed_modes, mode),
                            display_info |-> info],
             default |-> dflt]

jlt4013a_get_modes(conn, dflt, in) ==
    IF ~in.dupOk
    THEN [ret |-> -EAGAIN, connector |-> conn, default |-> dflt]
    ELSE LET named == drm_mode_set_name(dflt)
             mode == [named EXCEPT !.type = mode_type]
             info == [conn.display_info EXCEPT
                        !.width_mm = mode.width_mm,
                        !.height_mm = mode.height_mm,
                        !.bpc = 8,
                        !.bus_flags = DRM_BUS_FLAG_PIXDATA_DRIVE_POSEDGE,
                        !.bus_formats = IF in.fmtRet = 0
                                        THEN <<MEDIA_BUS_FMT_RGB888_1X24>>
                                        ELSE @]
         IN [ret |-> 1,
             connector |-> [probed_modes |-> Append(conn.probed_modes, mode),
                            display_info |-> info],
             default |-> dflt]

(* jlt4013a_enable, lines 698-701, and jlt4013a_disable, lines 703-706. *)
jlt4013a_enable_DisplayOn ==
    [ret |-> 0,
     events |-> <<Event("spi_sync", st7701s_write_command(ST7701S_DISPON), 0)>>]

jlt4013a_enable == [ret |-> 0, events |-> <<>>]

jlt4013a_disable == [ret |-> 0, events |-> <<>>]

(***************************************************************************)
(* jlt4013a_probe, lines 716-753.  in says what the allocation and the     *)
(* three lookups answer; the result is the value returned, the calls made  *)
(* and what the device holds afterwards.  devm_gpiod_get with              *)
(* GPIOD_OUT_LOW drives the reset line to 0.                               *)
(***************************************************************************)
jlt4013a_probe_AddBeforeBacklight(in) ==
    LET supply == Event("devm_regulator_get", 0, in.supplyErr)
        gpio == Event("devm_gpiod_get", 0, in.resetErr)
        init == Event("drm_panel_init", 0, 0)
        backlight == Event("drm_panel_of_backlight", 0, in.backlightErr)
        add == Event("drm_panel_add", 0, 0)
        result(r, ev, sup, rst, added) ==
            [ret |-> r, events |-> ev, supply |-> sup, reset |-> rst,
             panel_added |-> added]
    IN IF ~in.allocOk THEN result(-EAGAIN, <<>>, FALSE, FALSE, FALSE)
       ELSE IF in.supplyErr # 0
       THEN result(in.supplyErr, <<supply>>, FALSE, FALSE, FALSE)
       ELSE IF in.resetErr # 0
       THEN result(in.resetErr, <<supply, gpio>>, TRUE, FALSE, FALSE)
       ELSE IF in.backlightErr # 0
       THEN result(in.backlightErr, <<supply, gpio, init, add, backlight>>,
                   TRUE, TRUE, TRUE)
       ELSE result(0, <<supply, gpio, init, add, backlight>>, TRUE, TRUE, TRUE)

jlt4013a_probe(in) ==
    LET supply == Event("devm_regulator_get", 0, in.supplyErr)
        gpio == Event("devm_gpiod_get", 0, in.resetErr)
        init == Event("drm_panel_init", 0, 0)
        backlight == Event("drm_panel_of_backlight", 0, in.backlightErr)
        add == Event("drm_panel_add", 0, 0)
        result(r, ev, sup, rst, added) ==
            [ret |-> r, events |-> ev, supply |-> sup, reset |-> rst,
             panel_added |-> added]
    IN IF ~in.allocOk THEN result(-EAGAIN, <<>>, FALSE, FALSE, FALSE)
       ELSE IF in.supplyErr # 0
       THEN result(in.supplyErr, <<supply>>, FALSE, FALSE, FALSE)
       ELSE IF in.resetErr # 0
       THEN result(in.resetErr, <<supply, gpio>>, TRUE, FALSE, FALSE)
       ELSE IF in.backlightErr # 0
       THEN result(in.backlightErr, <<supply, gpio, init, backlight>>,
                   TRUE, TRUE, FALSE)
       ELSE result(0, <<supply, gpio, init, backlight, add>>, TRUE, TRUE, TRUE)

(* jlt4013a_remove, lines 755-761: drm_panel_remove and nothing else; uc   *)
(* is the regulator's count, which it does not touch.                      *)
jlt4013a_remove(uc) ==
    [ret |-> 0, use_count |-> uc, events |-> <<Event("drm_panel_remove", 0, 0)>>]

(***************************************************************************)
(* The state after jlt4013a_probe succeeded (lines 716-753): the reset     *)
(* GPIO was requested GPIOD_OUT_LOW, the regulator is not enabled.         *)
(***************************************************************************)
NoInputs == [powerRet |-> 0, failAt |-> 0, busErr |-> 0, dupOk |-> TRUE, fmtRet |-> 0,
             allocOk |-> TRUE, supplyErr |-> 0, resetErr |-> 0, backlightErr |-> 0]

(* The device before it is bound, and once jlt4013a_probe has returned 0. *)
UnboundDevice == [bound |-> "no", supply |-> FALSE, reset |-> FALSE, panel_added |-> FALSE]

ProbedDevice == [bound |-> "yes", supply |-> TRUE, reset |-> TRUE, panel_added |-> TRUE]

(* The state a call finds, with the last call (op, whether it returned 0,  *)
(* whether a bus transfer failed in it) and the call before that one.      *)
Snapshot == [lifecycle |-> lifecycle, use_count |-> use_count, reset |-> reset,
             connector |-> connector,
             op |-> op, ok |-> (ret = 0), busFailed |-> (inputs.failAt > 0),
             prevOp |-> before.op, prevBusFailed |-> before.busFailed]

NoWrite == [fn |-> "none", byte |-> 0, done |-> FALSE, msg |-> <<>>]

InitPanel ==
    /\ lifecycle = "Unprepared"
    /\ use_count = 0
    /\ reset = 0
    /\ connector = [probed_modes |-> <<>>,
                    display_info |-> [width_mm |-> 0, height_mm |-> 0, bpc |-> 0,
                                      bus_flags |-> 0, bus_formats |-> <<>>]]
    /\ default_display_mode = jlt4013a_default_display_mode
    /\ pc = 0
    /\ op = "none"
    /\ ret = 0
    /\ trace = <<>>
    /\ inputs = NoInputs
    /\ before = [lifecycle |-> "Unprepared", use_count |-> 0, reset |-> 0,
                 connector |-> connector,
                 op |-> "none", ok |-> TRUE, busFailed |-> FALSE,
                 prevOp |-> "none", prevBusFailed |-> FALSE]
    /\ faults = 0
    /\ device = ProbedDevice

Init == InitPanel /\ wr = NoWrite

(* What the environment may answer; every failure counts against MaxFaults. *)
StatementResults(s) ==
    {0} \cup
    (IF faults < MaxFaults
     THEN (IF s.op = "regulator_enable" THEN PowerErrors
           ELSE IF IsWrite(s) THEN BusErrors
           ELSE {})
     ELSE {})

DisableResults == {0} \cup (IF faults < MaxFaults THEN PowerErrors ELSE {})

GetModesInputs ==
    {NoInputs} \cup
    (IF faults < MaxFaults
     THEN {[NoInputs EXCEPT !.dupOk = FALSE], [NoInputs EXCEPT !.fmtRet = -12]}
     ELSE {})

(* A callback is entered: the record of the call starts afresh. *)
Enter(o) ==
    /\ pc = 0
    /\ op' = o
    /\ before' = Snapshot

(***************************************************************************)
(* The pipeline calls prepare on an Unprepared panel.                      *)
(***************************************************************************)
PrepareCall ==
    /\ lifecycle = "Unprepared"
    /\ Enter("prepare")
    /\ pc' = 1
    /\ ret' = 0
    /\ trace' = <<>>
    /\ inputs' = NoInputs
    /\ UNCHANGED <<lifecycle, use_count, reset, connector, default_display_mode,
                   faults, wr, device>>

(* One statement of jlt4013a_prepare; r is the result of its call. *)
PrepareStatement(r) ==
    /\ pc > 0
    /\ LET s == PrepareBody[pc]
           returns == EarlyReturn(s, r) \/ pc = Len(PrepareBody)
           value == IF s.op = "regulator_enable" \/ IsWrite(s) THEN r ELSE ret
       IN /\ r \in StatementResults(s)
          /\ trace' = Append(trace, StatementEvent(s, r))
          /\ ret' = value
          /\ use_count' = IF s.op = "regulator_enable" /\ r = 0
                          THEN use_count + 1 ELSE use_count
          /\ reset' = IF s.op = "gpiod_set_value" THEN s.arg ELSE reset
          /\ inputs' = IF r = 0 THEN inputs
                       ELSE IF s.op = "regulator_enable"
                       THEN [inputs EXCEPT !.powerRet = r]
                       ELSE [inputs EXCEPT !.failAt = Len(Transfers(trace)) + 1,
                                           !.busErr = r]
          /\ faults' = IF r = 0 THEN faults ELSE faults + 1
          /\ pc' = IF returns THEN 0 ELSE pc + 1
          /\ lifecycle' = IF returns /\ value = 0 THEN "Prepared" ELSE lifecycle
    /\ UNCHANGED <<connector, default_display_mode, op, before, wr, device>>

(* unprepare; r is what regulator_disable gives. *)
UnprepareCall(r) ==
    /\ Enter("unprepare")
    /\ LET u == jlt4013a_unprepare(use_count, r) IN
          /\ use_count' = u.use_count
          /\ ret' = u.ret
          /\ trace' = u.events
          /\ lifecycle' = IF u.ret = 0 THEN "Unprepared" ELSE lifecycle
    /\ inputs' = [NoInputs EXCEPT !.powerRet = r]
    /\ faults' = IF r = 0 THEN faults ELSE faults + 1
    /\ UNCHANGED <<reset, connector, default_display_mode, pc, wr, device>>

(* unprepare, on a Prepared or Disabled panel. *)
Unprepare(r) == lifecycle \in {"Prepared", "Disabled"} /\ UnprepareCall(r)

(* The recovery from a prepare that failed at a bus transfer: the pipeline *)
(* calls unprepare although the panel never became Prepared.               *)
UnprepareAfterFailedPrepare(r) ==
    /\ lifecycle = "Unprepared"
    /\ op = "prepare"
    /\ inputs.failAt > 0
    /\ UnprepareCall(r)

(* enable and disable; to is the lifecycle state the pipeline moves to. *)
EnableCall(to) ==
    /\ Enter("enable")
    /\ ret' = jlt4013a_enable.ret
    /\ trace' = jlt4013a_enable.events
    /\ lifecycle' = IF jlt4013a_enable.ret = 0 THEN to ELSE lifecycle
    /\ inputs' = NoInputs
    /\ UNCHANGED <<use_count, reset, connector, default_display_mode, pc, faults, wr, device>>

DisableCall(to) ==
    /\ Enter("disable")
    /\ ret' = jlt4013a_disable.ret
    /\ trace' = jlt4013a_disable.events
    /\ lifecycle' = IF jlt4013a_disable.ret = 0 THEN to ELSE lifecycle
    /\ inputs' = NoInputs
    /\ UNCHANGED <<use_count, reset, connector, default_display_mode, pc, faults, wr, device>>

(* enable, on a Prepared panel; disable, on an Enabled one. *)
Enable == lifecycle = "Prepared" /\ EnableCall("Enabled")

Disable == lifecycle = "Enabled" /\ DisableCall("Disabled")

(* The callbacks check no state: a call the table does not list runs the   *)
(* same code and moves the pipeline nowhere.                               *)
EnableElsewhere == lifecycle # "Prepared" /\ EnableCall(lifecycle)

DisableElsewhere == lifecycle # "Enabled" /\ DisableCall(lifecycle)

(* get_modes, in any lifecycle state. *)
GetModes(in) ==
    /\ Len(connector.probed_modes) < MaxModes
    /\ Enter("get_modes")
    /\ LET g == jlt4013a_get_modes(connector, default_display_mode, in) IN
          /\ connector' = g.connector
          /\ default_display_mode' = g.default
          /\ ret' = g.ret
    /\ trace' = <<>>
    /\ inputs' = in
    /\ faults' = IF in = NoInputs THEN faults ELSE faults + 1
    /\ UNCHANGED <<lifecycle, use_count, reset, pc, wr, device>>

Next ==
    \/ PrepareCall
    \/ \E r \in {0} \cup PowerErrors \cup BusErrors : PrepareStatement(r)
    \/ \E r \in DisableResults : Unprepare(r)
    \/ Enable
    \/ Disable
    \/ \E in \in GetModesInputs : GetModes(in)

Spec == Init /\ [][Next]_vars

(* The pipeline also calls enable and disable in states the table leaves out. *)
NextAnyState ==
    \/ PrepareCall
    \/ \E r \in {0} \cup PowerErrors \cup BusErrors : PrepareStatement(r)
    \/ \E r \in DisableResults : Unprepare(r)
    \/ Enable
    \/ Disable
    \/ EnableElsewhere
    \/ DisableElsewhere
    \/ \E in \in GetModesInputs : GetModes(in)

SpecAnyState == Init /\ [][NextAnyState]_vars

(* The pipeline also recovers from a failed prepare by unprepare, prepare. *)
NextRecovery ==
    \/ PrepareCall
    \/ \E r \in {0} \cup PowerErrors \cup BusErrors : PrepareStatement(r)
    \/ \E r \in DisableResults : Unprepare(r)
    \/ \E r \in DisableResults : UnprepareAfterFailedPrepare(r)
    \/ Enable
    \/ Disable
    \/ \E in \in GetModesInputs : GetModes(in)

SpecRecovery == Init /\ [][NextRecovery]_vars

(***************************************************************************)
(* The device from before it is bound: jlt4013a_probe, the callbacks once  *)
(* the panel is added, jlt4013a_remove.  The level of the reset line is    *)
(* not known before the driver requests it.  A probe that failed leaves    *)
(* the device unbound (devm releases what it held) and may be tried again. *)
(***************************************************************************)
InitDevice ==
    /\ lifecycle = "Unprepared"
    /\ use_count = 0
    /\ reset \in {0, 1}
    /\ connector = [probed_modes |-> <<>>,
                    display_info |-> [width_mm |-> 0, height_mm |-> 0, bpc |-> 0,
                                      bus_flags |-> 0, bus_formats |-> <<>>]]
    /\ default_display_mode = jlt4013a_default_display_mode
    /\ pc = 0
    /\ op = "none"
    /\ ret = 0
    /\ trace = <<>>
    /\ inputs = NoInputs
    /\ before = [lifecycle |-> "Unprepared", use_count |-> 0, reset |-> reset,
                 connector |-> connector,
                 op |-> "none", ok |-> TRUE, busFailed |-> FALSE,
                 prevOp |-> "none", prevBusFailed |-> FALSE]
    /\ faults = 0
    /\ device = UnboundDevice
    /\ wr = NoWrite

ProbeInputs ==
    {NoInputs} \cup
    (IF faults < MaxFaults
     THEN {[NoInputs EXCEPT !.allocOk = FALSE]}
          \cup {[NoInputs EXCEPT !.supplyErr = e] : e \in ProbeErrors}
          \cup {[NoInputs EXCEPT !.resetErr = e] : e \in ProbeErrors}
          \cup {[NoInputs EXCEPT !.backlightErr = e] : e \in ProbeErrors}
     ELSE {})

(* The bus binds the driver to the device. *)
Probe(in) ==
    /\ device.bound = "no"
    /\ Enter("probe")
    /\ LET p == jlt4013a_probe(in) IN
          /\ ret' = p.ret
          /\ trace' = p.events
          /\ reset' = IF p.reset THEN 0 ELSE reset
          /\ device' = IF p.ret = 0
                       THEN [bound |-> "yes", supply |-> p.supply, reset |-> p.reset,
                             panel_added |-> p.panel_added]
                       ELSE [UnboundDevice EXCEPT !.panel_added = p.panel_added]
    /\ inputs' = in
    /\ faults' = IF in = NoInputs THEN faults ELSE faults + 1
    /\ UNCHANGED <<lifecycle, use_count, connector, default_display_mode, pc, wr>>

(* The driver is unbound, in any lifecycle state, while no callback runs;  *)
(* devm then releases the regulator and GPIO handles (regulator_put does   *)
(* not disable).                                                           *)
Remove ==
    /\ device.bound = "yes"
    /\ Enter("remove")
    /\ LET r == jlt4013a_remove(use_count) IN
          /\ ret' = r.ret
          /\ trace' = r.events
          /\ use_count' = r.use_count
    /\ device' = [bound |-> "removed", supply |-> FALSE, reset |-> FALSE,
                  panel_added |-> FALSE]
    /\ inputs' = NoInputs
    /\ UNCHANGED <<lifecycle, reset, connector, default_display_mode, pc, faults, wr>>

(* The pipeline finds the panel, and calls it, only while it is added. *)
NextDevice ==
    \/ \E in \in ProbeInputs : Probe(in)
    \/ Remove
    \/ device.panel_added /\ PrepareCall
    \/ device.panel_added /\ \E r \in {0} \cup PowerErrors \cup BusErrors : PrepareStatement(r)
    \/ device.panel_added /\ \E r \in DisableResults : Unprepare(r)
    \/ device.panel_added /\ Enable
    \/ device.panel_added /\ Disable
    \/ device.panel_added /\ \E in \in GetModesInputs : GetModes(in)

SpecDevice == InitDevice /\ [][NextDevice]_vars

(***************************************************************************)
(* st7701s_write_command and st7701s_write_data on their own: one call,    *)
(* of either function, with any byte.                                      *)
(***************************************************************************)
WriteCalls ==
    {[fn |-> f, byte |-> b, done |-> FALSE, msg |-> <<>>] :
        f \in {"write_command", "write_data"}, b \in 0..U8Max}

InitWrite == InitPanel /\ wr \in WriteCalls

CallWriteCommand ==
    /\ wr.fn = "write_command"
    /\ ~wr.done
    /\ wr' = [wr EXCEPT !.done = TRUE, !.msg = st7701s_write_command(wr.byte)]
    /\ UNCHANGED panel

CallWriteData ==
    /\ wr.fn = "write_data"
    /\ ~wr.done
    /\ wr' = [wr EXCEPT !.done = TRUE, !.msg = st7701s_write_data(wr.byte)]
    /\ UNCHANGED panel

NextWrite == CallWriteCommand \/ CallWriteData

SpecWrite == InitWrite /\ [][NextWrite]_vars

(***************************************************************************)
(* Properties.  A call has returned when pc = 0; op, ret, trace, inputs    *)
(* and before then describe it.                                            *)
(***************************************************************************)
Returned(o) == pc = 0 /\ op = o

(* The words of the transfers of the call, in order. *)
Words == LET x == Transfers(trace) IN [i \in 1..Len(x) |-> x[i].arg[1].tx_buf]

(* The writes the bring-up lists, and the 9-bit word of a write: the kind  *)
(* bit (Command 0, Data 1) above the byte.                                 *)
ScriptWrites == SelectSeq(PrepareBody, IsWrite)

WordOf(s) == (IF s.op = "write_data" THEN 256 ELSE 0) + s.arg

(* C1: if the k-th bus transfer of a prepare call (the sleep-out command   *)
(* being the first) is the first to fail, the call makes exactly k         *)
(* transfers, the first k words of the script with none sent twice, makes  *)
(* nothing after the failed one, and returns that transfer's error         *)
(* unchanged; k is any of 1..NumTransfers.  While the call is still        *)
(* running, no transfer of it has failed.                                  *)
C1_FailFast ==
    /\ (op = "prepare" /\ pc > 0) => (ret = 0 /\ inputs.failAt = 0)
    /\ (Returned("prepare") /\ inputs.failAt > 0) =>
        LET x == Transfers(trace)
            k == inputs.failAt
        IN /\ k \in 1..NumTransfers
           /\ Len(x) = k
           /\ \A i \in 1..k :
                 /\ Len(x[i].arg) = 1
                 /\ x[i].arg[1].tx_buf = WordOf(ScriptWrites[i])
                 /\ (x[i].ret # 0) <=> (i = k)
           /\ trace[Len(trace)].op = "spi_sync"
           /\ x[k].ret = inputs.busErr
           /\ ret = inputs.busErr
           /\ ret \in BusErrors

C1_Witness ==
    /\ Returned("prepare")
    /\ inputs.failAt = NumTransfers
    /\ ret = -110

(* C2: if power-enable fails during prepare, prepare returns that error    *)
(* unchanged, and the call sets no reset line, makes no bus transfer and   *)
(* waits no delay: the failed regulator_enable is its only event.          *)
C2_PowerEnableFailure ==
    (Returned("prepare") /\ inputs.powerRet # 0) =>
        /\ ret = inputs.powerRet
        /\ ret \in PowerErrors
        /\ trace = <<Event("regulator_enable", 0, inputs.powerRet)>>
        /\ reset = before.reset
        /\ use_count = before.use_count

C2_Witness ==
    /\ Returned("prepare")
    /\ inputs.powerRet = -110
    /\ Len(trace) = 1

(* C3: a prepare whose sub-operations all succeed calls power-enable       *)
(* exactly once, sets the reset line exactly twice, to 1 then to 0, both   *)
(* before any bus transfer; the first word it sends is the sleep-out       *)
(* command 0x11, sent once, so before any Bank-0 command; DISPON 0x29 is   *)
(* sent once, after COLMOD 0x3A and after the bank-disable step (0xFF with *)
(* data 0x77 0x01 0x00 0x00 0x00); and it returns 0.                       *)
C3_SuccessfulPrepareOrder ==
    (Returned("prepare") /\ ret = 0) =>
        LET enables == {i \in DOMAIN trace : trace[i].op = "regulator_enable"}
            resets == {i \in DOMAIN trace : trace[i].op = "gpiod_set_value"}
            xfers == {i \in DOMAIN trace : trace[i].op = "spi_sync"}
            w == Words
            at(c) == {i \in DOMAIN w : w[i] = c}
            bankOff == {j \in 1..(Len(w) - 5) :
                           SubSeq(w, j, j + 5) = <<255, 256 + 119, 256 + 1, 256, 256, 256>>}
        IN /\ Cardinality(enables) = 1
           /\ [i \in 1..2 |-> SelectSeq(trace, LAMBDA e : e.op = "gpiod_set_value")[i].arg]
                 = <<1, 0>>
           /\ Cardinality(resets) = 2
           /\ \A i \in resets : \A j \in xfers : i < j
           /\ \A i \in enables : \A j \in resets : i < j
           /\ w[1] = 17
           /\ at(17) = {1}
           /\ Cardinality(at(41)) = 1
           /\ Cardinality(at(58)) = 1
           /\ \A d \in at(41) : \A c \in at(58) : c < d
           /\ bankOff # {}
           /\ \A d \in at(41) : \A j \in bankOff : j + 5 < d
           /\ lifecycle = "Prepared"

C3_Witness ==
    /\ Returned("prepare")
    /\ ret = 0
    /\ faults = 0
    /\ before.use_count = 0
    /\ Len(Transfers(trace)) = NumTransfers

(* C4: when prepare fails at any step, the power supply is not left        *)
(* enabled by the call: enables minus disables is what it was before it.   *)
C4_FailedPrepareLeavesPowerOff ==
    (Returned("prepare") /\ ret # 0) => use_count = before.use_count

(* C5: for Command and Data and every byte 0..255, the call hands the bus  *)
(* one message of one transfer of one 9-bit word; the word is below 512,   *)
(* its bits 7..0 are the byte, and its bit 8 is 1 exactly for Data:        *)
(* write_command sends prefix 0, write_data prefix 1.                      *)
C5_WordEncoding ==
    wr.done =>
        /\ Len(wr.msg) = 1
        /\ wr.msg[1].bits_per_word = 9
        /\ WordsOf(wr.msg[1]) = 1
        /\ wr.msg[1].tx_buf < 512
        /\ wr.msg[1].tx_buf % 256 = wr.byte
        /\ (wr.msg[1].tx_buf \div 256) % 2 = (IF wr.fn = "write_data" THEN 1 ELSE 0)

C5_Witness ==
    /\ wr.done
    /\ wr.fn = "write_data"
    /\ wr.byte = 255
    /\ wr.msg[1].tx_buf = 511

(* What C6 says of a call: it returns 1 and has added one mode, with the   *)
(* listed timings and both the preferred and the driver bit in its type.   *)
OneFixedModeAdded ==
    LET modes == connector.probed_modes
        m == modes[Len(modes)]
    IN /\ ret = 1
       /\ Len(modes) = Len(before.connector.probed_modes) + 1
       /\ SubSeq(modes, 1, Len(modes) - 1) = before.connector.probed_modes
       /\ m.clock = 14616
       /\ m.hdisplay = 480
       /\ m.hsync_start = 512
       /\ m.hsync_end = 523
       /\ m.htotal = 525
       /\ m.vdisplay = 800
       /\ m.vsync_start = 854
       /\ m.vsync_end = 895
       /\ m.vtotal = 928
       /\ m.width_mm = 52
       /\ m.height_mm = 86
       /\ (m.type \div 8) % 2 = 1
       /\ (m.type \div 64) % 2 = 1

(* C6, as stated: get_modes always returns exactly one Mode Descriptor     *)
(* (returns 1, one mode added) with the listed values, preferred and       *)
(* driver-mandated.                                                        *)
C6_AlwaysOneMode == Returned("get_modes") => OneFixedModeAdded

(* C6, amended: whenever the duplication of the fixed descriptor succeeds, *)
(* get_modes returns 1 and adds exactly one mode with the listed values,   *)
(* preferred and driver-mandated.                                          *)
C6_OneModeWhenDuplicated ==
    (Returned("get_modes") /\ inputs.dupOk) => OneFixedModeAdded

C6_Witness ==
    /\ Returned("get_modes")
    /\ inputs.dupOk
    /\ ret = 1
    /\ Len(connector.probed_modes) = 2

(* C7: while every sub-operation has succeeded, each unprepare calls       *)
(* power-disable exactly once and returns 0, also right after prepare; and *)
(* between calls enables minus disables is 1 in Prepared, Enabled and      *)
(* Disabled and 0 in Unprepared.                                           *)
C7_PowerBalance ==
    (pc = 0 /\ faults = 0) =>
        /\ use_count = (IF lifecycle = "Unprepared" THEN 0 ELSE 1)
        /\ op = "unprepare" =>
              /\ ret = 0
              /\ Len(SelectSeq(trace, LAMBDA e : e.op = "regulator_disable")) = 1
              /\ use_count = before.use_count - 1
              /\ lifecycle = "Unprepared"

C7_Witness ==
    /\ Returned("unprepare")
    /\ faults = 0
    /\ before.lifecycle = "Prepared"
    /\ before.use_count = 1
    /\ use_count = 0

(* C8: unprepare makes exactly one power-disable call and nothing else (no *)
(* bus transfer, no change of the reset line, no delay), and returns what  *)
(* power-disable returned: its error unchanged, or 0.                      *)
C8_UnprepareOnlyDisables ==
    Returned("unprepare") =>
        /\ trace = <<Event("regulator_disable", 0, inputs.powerRet)>>
        /\ ret = inputs.powerRet
        /\ reset = before.reset
        /\ connector = before.connector

C8_Witness ==
    /\ Returned("unprepare")
    /\ ret = -5
    /\ inputs.powerRet = -5

(* C9: enable and disable, in whatever lifecycle state they are called,    *)
(* return 0 and touch neither the power supply nor the reset line nor the  *)
(* bus, and wait no delay.                                                 *)
C9_EnableDisableNoOps ==
    (pc = 0 /\ op \in {"enable", "disable"}) =>
        /\ ret = 0
        /\ trace = <<>>
        /\ use_count = before.use_count
        /\ reset = before.reset
        /\ connector = before.connector

C9_Witness ==
    /\ Returned("enable")
    /\ before.lifecycle = "Disabled"
    /\ before.use_count = 1

(* C10: get_modes, in any of the four lifecycle states, leaves the         *)
(* lifecycle state, the power supply, the reset line and the bus as they   *)
(* were, and its result does not depend on the state: 1 and a copy of the  *)
(* fixed descriptor when the duplication succeeds, -EAGAIN otherwise.      *)
C10_GetModesPureQuery ==
    Returned("get_modes") =>
        /\ before.lifecycle \in {"Unprepared", "Prepared", "Enabled", "Disabled"}
        /\ lifecycle = before.lifecycle
        /\ use_count = before.use_count
        /\ reset = before.reset
        /\ trace = <<>>
        /\ ret = (IF inputs.dupOk THEN 1 ELSE -EAGAIN)
        /\ inputs.dupOk =>
              LET m == connector.probed_modes[Len(connector.probed_modes)]
              IN [m EXCEPT !.name = "", !.type = 0] = jlt4013a_default_display_mode

C10_Witness ==
    /\ Returned("get_modes")
    /\ before.lifecycle = "Disabled"
    /\ Len(before.connector.probed_modes) = 1
    /\ ret = 1

(* The events a prepare makes when every sub-operation succeeds. *)
FullPrepareTrace == [i \in 1..Len(PrepareBody) |-> StatementEvent(PrepareBody[i], 0)]

IsTransferOf(e, word) == e.op = "spi_sync" /\ e.arg[1].tx_buf = word

(* C11: a prepare call makes, in this order, power-enable, a wait of       *)
(* 120 ms, reset asserted, a wait of 30 to 120 ms, reset deasserted, a     *)
(* wait of 120 ms, and only then its first bus transfer; the reset line is *)
(* set nowhere else in the call, so no transfer is made while reset is     *)
(* asserted or before the wait after it; a prepare that succeeds has made  *)
(* them all.                                                               *)
C11_PowerResetSequence ==
    /\ (op = "prepare" /\ Transfers(trace) # <<>>) =>
          /\ Len(trace) >= 7
          /\ trace[1] = Event("regulator_enable", 0, 0)
          /\ trace[2] = Event("msleep", 120, 0)
          /\ trace[3] = Event("gpiod_set_value", 1, 0)
          /\ trace[4].op = "msleep"
          /\ trace[4].arg >= 30
          /\ trace[4].arg <= 120
          /\ trace[5] = Event("gpiod_set_value", 0, 0)
          /\ trace[6] = Event("msleep", 120, 0)
          /\ trace[7].op = "spi_sync"
          /\ {i \in DOMAIN trace : trace[i].op \in {"gpiod_set_value", "regulator_enable"}}
                = {1, 3, 5}
          /\ reset = 0
    /\ (Returned("prepare") /\ ret = 0) => Transfers(trace) # <<>>

C11_Witness ==
    /\ Returned("prepare")
    /\ ret = 0
    /\ trace[4] = Event("msleep", 120, 0)
    /\ IsTransferOf(trace[7], 17)

(* C12: in a prepare call the event after the sleep-out transfer, if the   *)
(* call goes on, is a wait of 120 ms; a prepare that succeeds ends with    *)
(* the display-on transfer and then a wait of 120 ms; one that fails at a  *)
(* transfer ends with that transfer, having waited only the delays before  *)
(* it.                                                                     *)
C12_SettleDelays ==
    /\ op = "prepare" =>
          \A i \in DOMAIN trace :
              (IsTransferOf(trace[i], 17) /\ trace[i].ret = 0 /\ i < Len(trace))
                  => trace[i + 1] = Event("msleep", 120, 0)
    /\ (Returned("prepare") /\ ret = 0) =>
          /\ Len(trace) >= 2
          /\ trace[Len(trace)] = Event("msleep", 120, 0)
          /\ IsTransferOf(trace[Len(trace) - 1], 41)
          /\ \E i \in DOMAIN trace : IsTransferOf(trace[i], 17)
    /\ (Returned("prepare") /\ inputs.failAt > 0) =>
          /\ trace[Len(trace)].op = "spi_sync"
          /\ trace[Len(trace)].ret = ret
          /\ Len(SelectSeq(trace, LAMBDA e : e.op = "msleep"))
                = (IF inputs.failAt = 1 THEN 3 ELSE 4)

C12_Witness ==
    /\ Returned("prepare")
    /\ ret = 0
    /\ Len(trace) = Len(PrepareBody)
    /\ Len(SelectSeq(trace, LAMBDA e : e.op = "msleep")) = 5

(* The places of the bank-select command 0xFF among the words. *)
BankSelects(w) == {i \in DOMAIN w : w[i] = 255}

(* C13: the words of a prepare that succeeds hold exactly three            *)
(* bank-select steps, 0xFF with data 0x77 0x01 0x00 0x00 and the index, in *)
(* the order 0x10, 0x11, 0x00; every other command except the sleep-out,   *)
(* COLMOD and DISPON lies after the first of them and before the last;     *)
(* and after the last come COLMOD, its data, and DISPON, the last word.    *)
C13_BankBracketing ==
    (Returned("prepare") /\ ret = 0) =>
        LET w == Words
            sel == BankSelects(w)
            first == CHOOSE i \in sel : \A j \in sel : i <= j
            last == CHOOSE i \in sel : \A j \in sel : j <= i
            step(i, index) ==
                /\ i + 5 <= Len(w)
                /\ SubSeq(w, i, i + 5) = <<255, 256 + 119, 256 + 1, 256, 256, 256 + index>>
        IN /\ Cardinality(sel) = 3
           /\ step(first, 16)
           /\ \A i \in sel \ {first, last} : step(i, 17)
           /\ step(last, 0)
           /\ \A i \in DOMAIN w :
                 (w[i] < 256 /\ w[i] \notin {17, 255, 58, 41}) => (first + 5 < i /\ i < last)
           /\ Len(w) = last + 8
           /\ w[last + 6] = 58
           /\ w[last + 7] >= 256
           /\ w[last + 8] = 41
           /\ {i \in DOMAIN w : w[i] \in {58, 41}} = {last + 6, last + 8}

C13_Witness ==
    /\ Returned("prepare")
    /\ ret = 0
    /\ Cardinality(BankSelects(Words)) = 3
    /\ Words[Len(Words)] = 41

(* What C14 says, for the data byte: a prepare that succeeds sends COLMOD  *)
(* 0x3A once, followed by exactly one data word, which carries the byte.   *)
ColmodData(byte) ==
    LET w == Words
        at == {i \in DOMAIN w : w[i] = 58}
    IN /\ Cardinality(at) = 1
       /\ \A i \in at :
             /\ i + 2 <= Len(w)
             /\ w[i + 1] = 256 + byte
             /\ w[i + 2] < 256

(* C14, as stated: the COLMOD step sets the 18-bit-per-pixel format, data  *)
(* byte 0x60.                                                              *)
C14_Colmod18bpp == (Returned("prepare") /\ ret = 0) => ColmodData(96)

(* C14, amended: the COLMOD step (0x3A and exactly one data byte) sets the *)
(* 24-bit-per-pixel format: the data byte is 0x70, format bits 6..4 = 111. *)
C14_Colmod24bpp ==
    (Returned("prepare") /\ ret = 0) =>
        /\ ColmodData(112)
        /\ (112 \div 16) % 8 = 7

C14_Witness ==
    /\ Returned("prepare")
    /\ ret = 0
    /\ \E i \in DOMAIN Words : Words[i] = 58 /\ Words[i + 1] = 256 + 112

(* The number of Data words that follow the word at place i. *)
RECURSIVE DataRun(_, _)
DataRun(w, i) == IF i + 1 <= Len(w) /\ w[i + 1] >= 256 THEN 1 + DataRun(w, i + 1) ELSE 0

(* C15: a prepare that succeeds sends one word for each write the script   *)
(* lists, in the script's order: a Command word for each register address  *)
(* and a Data word for each byte after it, the byte unchanged; the first   *)
(* word is a Command; and in Bank 0 the gamma registers 0xB0 and 0xB1 each *)
(* get exactly 16 Data words.                                              *)
C15_StepsInOrder ==
    (Returned("prepare") /\ ret = 0) =>
        LET w == Words
            sel == BankSelects(w)
            first == CHOOSE i \in sel : \A j \in sel : i <= j
            second == CHOOSE i \in sel \ {first} : \A j \in sel \ {first} : i <= j
            bank0(c) == {i \in (first + 1)..(second - 1) : w[i] = c}
        IN /\ Len(w) = Len(ScriptWrites)
           /\ \A i \in DOMAIN w :
                 /\ w[i] % 256 = ScriptWrites[i].arg
                 /\ (w[i] < 256) <=> (ScriptWrites[i].op = "write_command")
                 /\ w[i] < 512
           /\ w[1] < 256
           /\ Cardinality(bank0(176)) = 1
           /\ Cardinality(bank0(177)) = 1
           /\ \A i \in bank0(176) \cup bank0(177) : DataRun(w, i) = 16

C15_Witness ==
    /\ Returned("prepare")
    /\ ret = 0
    /\ Len(Words) = NumTransfers
    /\ \E i \in DOMAIN Words : Words[i] = 176 /\ DataRun(Words, i) = 16

(* C16: after a prepare that failed at a bus transfer, an unprepare and    *)
(* then a prepare whose sub-operations all succeed makes the whole         *)
(* sequence of a successful prepare on a fresh panel, from power-enable    *)
(* on, and leaves the supply enabled exactly once.                         *)
C16_RecoveryRunsWholeSequence ==
    (/\ Returned("prepare")
     /\ ret = 0
     /\ before.op = "unprepare"
     /\ before.ok
     /\ before.prevOp = "prepare"
     /\ before.prevBusFailed) =>
        /\ trace = FullPrepareTrace
        /\ trace[1].op = "regulator_enable"
        /\ Len(Transfers(trace)) = NumTransfers
        /\ use_count = 1
        /\ lifecycle = "Prepared"

(* C17: the fixed descriptor keeps its defined values in every state; the  *)
(* name and the preferred and driver flags are on the copies only.         *)
C17_FixedModeNeverMutated ==
    /\ default_display_mode = jlt4013a_default_display_mode
    /\ default_display_mode.clock = 14616
    /\ default_display_mode.type = 0
    /\ default_display_mode.name = ""
    /\ \A i \in DOMAIN connector.probed_modes :
          /\ connector.probed_modes[i].type = 8 + 64
          /\ connector.probed_modes[i].name = "480x800"

C17_Witness ==
    /\ Len(connector.probed_modes) = 2
    /\ lifecycle = "Enabled"
    /\ pc = 0
    /\ connector.probed_modes[2].name = "480x800"
    /\ default_display_mode.name = ""

(* C18: a get_modes that returns 1 leaves the display info at 52 mm by     *)
(* 86 mm, the positive-edge bus flag and exactly one bus format, the same  *)
(* values as after an earlier successful call, and has added one mode.     *)
C18_DisplayInfo ==
    (Returned("get_modes") /\ ret = 1) =>
        LET info == connector.display_info IN
        /\ info.width_mm = 52
        /\ info.height_mm = 86
        /\ info.bus_flags = DRM_BUS_FLAG_PIXDATA_DRIVE_POSEDGE
        /\ Len(info.bus_formats) = 1
        /\ (before.op = "get_modes" /\ before.ok) => info = before.connector.display_info
        /\ Len(connector.probed_modes) = Len(before.connector.probed_modes) + 1

(* C19: if duplicating the descriptor fails, get_modes returns a negative  *)
(* error and the connector is as before: no mode added, display info       *)
(* untouched.                                                              *)
C19_DuplicateFailure ==
    (Returned("get_modes") /\ ~inputs.dupOk) =>
        /\ ret < 0
        /\ ret = -EAGAIN
        /\ connector = before.connector

C19_Witness ==
    /\ Returned("get_modes")
    /\ ~inputs.dupOk
    /\ ret = -11
    /\ before.lifecycle = "Prepared"
    /\ Len(connector.probed_modes) = 1

(* C20: the reset line is deasserted whenever no call is in progress, from *)
(* discovery on and after a prepare that succeeded or failed; it is        *)
(* asserted only inside prepare, after its first reset-set call and before *)
(* its second; unprepare, enable, disable and get_modes leave it alone.    *)
C20_ResetDeassertedBetweenCalls ==
    /\ pc = 0 => reset = 0
    /\ reset = 1 =>
          /\ pc > 0
          /\ op = "prepare"
          /\ SelectSeq(trace, LAMBDA e : e.op = "gpiod_set_value")
                = <<Event("gpiod_set_value", 1, 0)>>
    /\ (pc = 0 /\ op \in {"unprepare", "enable", "disable", "get_modes"}) =>
          reset = before.reset

C20_Witness ==
    /\ Returned("prepare")
    /\ inputs.failAt > 1
    /\ ret # 0
    /\ reset = 0
    /\ Len(SelectSeq(trace, LAMBDA e : e.op = "gpiod_set_value")) = 2

(* The callbacks of jlt4013afuncs, and the three lookups of jlt4013a_probe *)
(* in the order the claim gives.                                           *)
LifecycleOps == {"prepare", "unprepare", "enable", "disable", "get_modes"}

ProbeLookups == <<"devm_regulator_get", "devm_gpiod_get", "drm_panel_of_backlight">>

(* C21: a probe that has returned made its lookups in the order power      *)
(* supply, reset line, backlight, stopping at the first that failed; the   *)
(* panel is added if and only if all three succeeded, and then by the last *)
(* call of probe; a failed lookup is the last call made, probe returns its *)
(* error unchanged and adds no panel.  In every state an added panel has   *)
(* both handles, and a callback is only ever called on a device that has.  *)
C21_RegisterAfterLookups ==
    /\ Returned("probe") =>
          LET looks == SelectSeq(trace, LAMBDA e : e.op \in {"devm_regulator_get",
                                     "devm_gpiod_get", "drm_panel_of_backlight"})
              failed == {i \in DOMAIN trace : trace[i].ret # 0}
              adds == {i \in DOMAIN trace : trace[i].op = "drm_panel_add"}
          IN /\ Len(looks) <= 3
             /\ \A i \in DOMAIN looks : looks[i].op = ProbeLookups[i]
             /\ device.panel_added <=> (Len(looks) = 3 /\ failed = {})
             /\ device.panel_added =>
                   /\ ret = 0
                   /\ adds = {Len(trace)}
                   /\ device.bound = "yes"
             /\ failed # {} =>
                   /\ failed = {Len(trace)}
                   /\ trace[Len(trace)].op = looks[Len(looks)].op
                   /\ ret = trace[Len(trace)].ret
                   /\ adds = {}
                   /\ device.bound = "no"
             /\ inputs.supplyErr # 0 => (ret = inputs.supplyErr /\ Len(looks) = 1)
             /\ inputs.resetErr # 0 => (ret = inputs.resetErr /\ Len(looks) = 2)
             /\ inputs.backlightErr # 0 => (ret = inputs.backlightErr /\ Len(looks) = 3)
    /\ device.panel_added => (device.supply /\ device.reset)
    /\ op \in LifecycleOps => (device.supply /\ device.reset /\ device.panel_added)

C21_Witness ==
    /\ Returned("probe")
    /\ ret = 0
    /\ device.panel_added
    /\ before.op = "probe"
    /\ ~before.ok
    /\ Len(trace) = 5

(* C22: once remove has returned, the successful power-enable calls equal  *)
(* the power-disable calls, whatever the lifecycle state remove was called *)
(* in.                                                                     *)
C22_RemoveLeavesPowerOff == Returned("remove") => use_count = 0

====
